---- MODULE Spec2Model ----
(***************************************************************************)
(* Model of the QA workflow panel (QASection.js), the threaded comment     *)
(* tree builder (QAComments.js, buildCommentTree) and the per-comment      *)
(* reaction widget (CommentReactions), the comment store of QAComments.js  *)
(* (load, create, edit, delete, unmount) and its mention autocomplete.     *)
(* Each part has its own specification; the variables of the other parts   *)
(* stay as Init left them.  The recursive rendering of the forest          *)
(* (ThreadedComment) has a specification of its own.                       *)
(***************************************************************************)
EXTENDS Integers, Sequences, FiniteSets, TLC

VARIABLES
    \* ---- QASection ----
    qaData,            \* useState qaData: the local QA record
    showAssignModal,   \* useState showAssignModal
    showNotesModal,    \* useState showNotesModal
    clock,             \* the wall clock read by new Date()
    reqs,              \* every updateQA call issued so far, in issue order
    outcome,           \* outcome[i]: "pending" | "ok" | "failed" for reqs[i]
    server,            \* the QA record the backend persisted last
    formData,          \* the parent's formData, as merged by onUpdate
    noteEdits,         \* the number of edits typed into the notes textarea
    notesBefore,       \* history: qa_notes when the notes modal was last opened
    \* ---- QAComments: buildCommentTree ----
    comments,          \* useState comments: the flat list
    tree,              \* the forest the last render built
    prevTree,          \* the forest the render before it built
    builds,            \* the number of renders so far
    renderStack,       \* the ThreadedComment elements still to be rendered
    visits,            \* the number of ThreadedComment elements rendered
    deepest,           \* the largest depth prop among them
    \* ---- CommentReactions, one instance per comment ----
    reactions,         \* useState reactions: emoji -> displayed count
    userReactions,     \* useState userReactions: the emojis of the current user
    loading,           \* useState loading: the in-flight guard
    showPicker,        \* useState showPicker
    srvReactions,      \* the backend's reactions: (comment, employee, emoji)
    procs,             \* the loadReactions / toggleReaction calls, in call order
    \* ---- QAComments: the comment store and the mention autocomplete ----
    commentsLoading,   \* useState loading of QAComments
    error,             \* useState error
    newComment,        \* useState newComment: the draft of a top-level comment
    replyText,         \* useState replyText: the draft of a reply
    replyingToId,      \* useState replyingToId
    editText,          \* useState editText
    editingCommentId,  \* useState editingCommentId
    submitting,        \* useState submitting
    showMentionSuggestions,  \* useState showMentionSuggestions
    mentionSuggestions,      \* useState mentionSuggestions
    mentionQuery,            \* useState mentionQuery (only ever set)
    activeMentionField,      \* useState activeMentionField
    mounted,           \* whether QAComments is mounted
    interval,          \* whether the setInterval of the mount effect is active
    srvComments,       \* the backend's comment list of the amendment
    srvNextId,         \* the id the backend gives the next comment
    calls,             \* the async handler calls of QAComments, in call order
    amendmentId        \* the amendmentId prop of QAComments

qaVars == <<qaData, showAssignModal, showNotesModal, clock, reqs, outcome, server, formData,
            noteEdits, notesBefore>>

renderVars == <<renderStack, visits, deepest>>

treeVars == <<comments, tree, prevTree, builds, renderVars>>

reactVars == <<reactions, userReactions, loading, showPicker, srvReactions, procs>>

storeVars == <<commentsLoading, error, newComment, replyText, replyingToId, editText,
               editingCommentId, submitting, mounted, interval, srvComments, srvNextId, calls>>

mentionVars == <<showMentionSuggestions, mentionSuggestions, mentionQuery, activeMentionField>>

entityVars == <<amendmentId>>

commentVars == <<storeVars, mentionVars, entityVars>>

vars == <<qaVars, treeVars, reactVars, commentVars>>

-----------------------------------------------------------------------------
(* Bounds *)

\* the number of user edits (updateQA calls and notes edits) of one behaviour
MaxOps == 2

\* the length of the comment lists given to buildCommentTree
MaxComments == 3

\* the number of renders (buildCommentTree calls) of one behaviour
MaxRenders == 2

\* the number of toggleReaction calls of one behaviour
MaxToggles == 2

-----------------------------------------------------------------------------
(* QASection: values *)

\* null for ids and timestamps (the code's `|| null`)
Null == 0

\* the select's "Not Set" option: e.target.value || null
NoResult == "Not Set"

StatusButtons == {"Assigned", "In Testing", "Blocked", "Passed", "Failed"}

Statuses == {"Not Started"} \cup StatusButtons

OverallResults == {NoResult, "Passed", "Failed", "Passed with Issues"}

ChecklistFields == {"qa_test_plan_check", "qa_test_release_notes_check"}

\* the active employees listed by the assign modal
EmployeeIds == {1, 2}

\* texts the user may have in the notes textarea
NoteTexts == {"", "n1"}

\* the amendment prop a QASection may be constructed with
FreshAmendment ==
    [qa_status |-> "Not Started", qa_assigned_id |-> Null, qa_assigned_date |-> Null,
     qa_started_date |-> Null, qa_test_plan_check |-> FALSE,
     qa_test_release_notes_check |-> FALSE, qa_completed |-> FALSE,
     qa_completed_date |-> Null, qa_notes |-> "", qa_overall_result |-> NoResult]

StartedAmendment ==
    [FreshAmendment EXCEPT !.qa_status = "In Testing", !.qa_assigned_id = 1,
                           !.qa_assigned_date = 1, !.qa_started_date = 1]

Amendments == {FreshAmendment, StartedAmendment}

\* the first clock value after the stamps the amendment prop may carry
FirstTick == StartedAmendment.qa_started_date + 1

-----------------------------------------------------------------------------
(* QASection: the records the handlers build *)

\* (mutant) the started stamp is taken on every move to 'In Testing'
StatusUpdatesRestamp(qa, newStatus, t) ==
    LET u1 == [qa EXCEPT !.qa_status = newStatus]
        u2 == IF newStatus = "In Testing"
              THEN [u1 EXCEPT !.qa_started_date = t] ELSE u1
        u3 == IF newStatus = "Passed" \/ newStatus = "Failed"
              THEN [u2 EXCEPT !.qa_completed = TRUE, !.qa_completed_date = t] ELSE u2
    IN  u3

\* handleStatusChange: updates, with the stamps
StatusUpdates(qa, newStatus, t) ==
    LET u1 == [qa EXCEPT !.qa_status = newStatus]
        u2 == IF newStatus = "In Testing" /\ qa.qa_started_date = Null
              THEN [u1 EXCEPT !.qa_started_date = t] ELSE u1
        u3 == IF newStatus = "Passed" \/ newStatus = "Failed"
              THEN [u2 EXCEPT !.qa_completed = TRUE, !.qa_completed_date = t] ELSE u2
    IN  u3

\* handleAssign: updates
AssignUpdates(qa, employeeId, t) ==
    [qa EXCEPT !.qa_assigned_id = employeeId,
               !.qa_assigned_date = t,
               !.qa_status = IF qa.qa_status = "Not Started" THEN "Assigned"
                             ELSE qa.qa_status]

\* handleChecklistChange: updates
ChecklistUpdates(qa, field) == [qa EXCEPT ![field] = ~qa[field]]

\* handleOverallResultChange: updates
OverallResultUpdates(qa, result) == [qa EXCEPT !.qa_overall_result = result]

\* the handlers whose catch block calls setQaData(prevData)
RollbackHandlers == {"status", "assign", "checklist", "result"}

\* what the optimistic handlers set locally before the request: setQaData(updates)
OptimisticSet(updates) == updates

\* (mutant) a catch block that only logs
AfterCatchLogOnly(req, current) == current

\* the catch block of a handler: the qaData it leaves
AfterCatch(req, current) ==
    IF req.handler \in RollbackHandlers THEN req.prevData ELSE current

\* a request record: the handler, the field it edits, the closure's prevData
\* and the payload handed to amendmentAPI.updateQA
Request(handler, field, prevData, payload) ==
    [handler |-> handler, field |-> field, prevData |-> prevData, payload |-> payload]

\* both modals are full-screen backdrops: the controls of the panel are reached
\* only while neither is shown
NoModal == ~showAssignModal /\ ~showNotesModal

Issue(req) ==
    /\ Len(reqs) + noteEdits < MaxOps
    /\ reqs' = Append(reqs, req)
    /\ outcome' = Append(outcome, "pending")
    /\ clock' = clock + 1

-----------------------------------------------------------------------------
(* QAComments: buildCommentTree *)

CommentIds == 1..(MaxComments + 1)

\* a comment of the flat list; parent_comment_id is Null for a top-level one
CommentRecords == [comment_id : CommentIds, parent_comment_id : {Null} \cup CommentIds]

IdsOf(list) == {list[i].comment_id : i \in 1..Len(list)}

\* the lists the server may return: at most MaxComments comments, ids unique
CommentLists ==
    {l \in UNION {[1..n -> CommentRecords] : n \in 0..MaxComments} :
        \A i, j \in 1..Len(l) : l[i].comment_id = l[j].comment_id => i = j}

\* the list of the end-to-end scenario: 1, 2 (reply to 1), 3, 4 (reply to 2)
ExampleList ==
    << [comment_id |-> 1, parent_comment_id |-> Null],
       [comment_id |-> 2, parent_comment_id |-> 1],
       [comment_id |-> 3, parent_comment_id |-> Null],
       [comment_id |-> 4, parent_comment_id |-> 2] >>

\* const commentMap = {}
EmptyMap == [x \in {} |-> <<>>]

\* commentMap[key] = value
Put(map, key, value) == (key :> value) @@ map

\* no forest built yet
NoTree == [commentMap |-> EmptyMap, rootComments |-> <<>>]

\* (mutant) a node kept from the render before is used again
CloneNodeCached(comment) ==
    IF comment.comment_id \in DOMAIN tree.commentMap
    THEN tree.commentMap[comment.comment_id]
    ELSE [comment_id |-> comment.comment_id,
          parent_comment_id |-> comment.parent_comment_id, replies |-> <<>>]

\* { ...comment, replies: [] }; replies holds references, written as ids
CloneNode(comment) ==
    [comment_id |-> comment.comment_id,
     parent_comment_id |-> comment.parent_comment_id, replies |-> <<>>]

\* first pass: the forEach that fills commentMap, from comment i on
RECURSIVE FirstPass(_, _, _)
FirstPass(list, i, map) ==
    IF i > Len(list) THEN map
    ELSE LET filled == Put(map, list[i].comment_id, CloneNode(list[i]))
         IN  \* the assignment is done when the forEach moves on: the key is set
             IF list[i].comment_id \in DOMAIN filled
             THEN FirstPass(list, i + 1, filled)
             ELSE filled

\* (mutant) a reply is put in front of its siblings, a root in front of the roots
LinkCommentUnshift(comment, st) ==
    IF comment.parent_comment_id # Null
    THEN IF comment.parent_comment_id \in DOMAIN st.commentMap
         THEN [st EXCEPT !.commentMap[comment.parent_comment_id].replies =
                             <<comment.comment_id>> \o @]
         ELSE st
    ELSE [st EXCEPT !.rootComments = <<comment.comment_id>> \o @]

\* (mutant) a reply is also listed as a root
LinkCommentAlsoRoot(comment, st) ==
    IF comment.parent_comment_id # Null
    THEN IF comment.parent_comment_id \in DOMAIN st.commentMap
         THEN [st EXCEPT !.commentMap[comment.parent_comment_id].replies =
                             Append(@, comment.comment_id),
                         !.rootComments = Append(@, comment.comment_id)]
         ELSE st
    ELSE [st EXCEPT !.rootComments = Append(@, comment.comment_id)]

\* the body of the second forEach: a reply is pushed to its parent's replies
\* when the parent is in the map (and to nothing when it is not), a comment
\* without parent is pushed to rootComments
LinkComment(comment, st) ==
    IF comment.parent_comment_id # Null
    THEN IF comment.parent_comment_id \in DOMAIN st.commentMap
         THEN [st EXCEPT !.commentMap[comment.parent_comment_id].replies =
                             Append(@, comment.comment_id)]
         ELSE st
    ELSE [st EXCEPT !.rootComments = Append(@, comment.comment_id)]

\* second pass: the forEach that links the nodes, from comment i on
RECURSIVE SecondPass(_, _, _)
SecondPass(list, i, st) ==
    IF i > Len(list) THEN st
    ELSE LET linked == LinkComment(list[i], st)
         IN  \* the push is done when the forEach moves on; it adds no node
             IF DOMAIN linked.commentMap = DOMAIN st.commentMap
             THEN SecondPass(list, i + 1, linked)
             ELSE linked

\* buildCommentTree(comments): the roots and the nodes they refer to
BuildCommentTree(list) ==
    SecondPass(list, 1, [commentMap |-> FirstPass(list, 1, EmptyMap),
                         rootComments |-> <<>>])

\* no ThreadedComment is being rendered
RenderIdle == renderStack = <<>> /\ visits = 0 /\ deepest = 0

TreeIdle ==
    /\ comments = <<>>
    /\ tree = NoTree
    /\ prevTree = NoTree
    /\ builds = 0
    /\ RenderIdle

TreeStart ==
    /\ comments \in CommentLists \cup {ExampleList}
    /\ tree = NoTree
    /\ prevTree = NoTree
    /\ builds = 0
    /\ RenderIdle

\* a render of QAComments: buildCommentTree(comments)
Render ==
    /\ builds < MaxRenders
    /\ tree' = BuildCommentTree(comments)
    /\ prevTree' = tree
    /\ builds' = builds + 1
    /\ UNCHANGED <<comments, renderVars>>

-----------------------------------------------------------------------------
(* CommentReactions *)

\* the comments that have a mounted CommentReactions
ReactionComments == {1, 2}

\* two of the six availableEmojis
Emojis == {"thumbsup", "party"}

\* JSON.parse(localStorage.getItem('user')).employee_id, and a colleague
CurrentUser == "me"

Employees == {CurrentUser, "other"}

Reaction(c, emp, e) == [comment_id |-> c, employee_id |-> emp, emoji |-> e]

\* GET /comments/{id}/reactions/summary: the count per emoji
Summary(srv, c) ==
    [e \in Emojis |-> Cardinality({r \in srv : r.comment_id = c /\ r.emoji = e})]

\* GET /comments/{id}/reactions: the reactions of the comment
ReactionList(srv, c) ==
    {[employee_id |-> r.employee_id, emoji |-> r.emoji] : r \in {x \in srv : x.comment_id = c}}

\* POST /comments/{id}/reactions?emoji=e: removes the caller's reaction when
\* there is one, adds it otherwise
ServerToggle(srv, c, emp, e) ==
    IF Reaction(c, emp, e) \in srv THEN srv \ {Reaction(c, emp, e)}
    ELSE srv \cup {Reaction(c, emp, e)}

NoSummary == [e \in Emojis |-> 0]

NoDisplay == [reactions |-> NoSummary, userReactions |-> {}]

\* (mutant) the summary response is dropped
ReactionsFromSummaryEmpty(data) == NoSummary

\* response.data.reactions || {}
ReactionsFromSummary(data) == data

\* (mutant) the reaction list is not filtered by employee
MyReactionsUnfiltered(list) == {r.emoji : r \in list}

\* userReactionsResponse.data.filter(r => r.employee_id === currentUser.employee_id)
\*                      .map(r => r.emoji), as a Set
MyReactions(list) == {r.emoji : r \in {x \in list : x.employee_id = CurrentUser}}

\* (mutant) no guard
ToggleBlockedNever(c) == FALSE

\* if (loading) return; the buttons are disabled={loading}
ToggleBlocked(c) == loading[c]

\* what the widget of comment c shows
Display(c) == [reactions |-> reactions[c], userReactions |-> userReactions[c]]

Running(c) == {i \in 1..Len(procs) : procs[i].comment = c /\ procs[i].pc # "done"}

\* the widget shows the backend's state of comment c and no call is running
InSync(c) ==
    /\ Running(c) = {}
    /\ reactions[c] = Summary(srvReactions, c)
    /\ userReactions[c] = {e \in Emojis : Reaction(c, CurrentUser, e) \in srvReactions}

\* a call: kind "mount" is the loadReactions of the mount effect, "toggle" a
\* toggleReaction; pc is the request it awaits; answered, summary and list hold
\* the response once the backend has handled the request; before, synced,
\* clean and after are history: the display at the call, whether it was in
\* sync then, whether every request succeeded, the display at the end
Proc(kind, c, e, pc, before, synced) ==
    [kind |-> kind, comment |-> c, emoji |-> e, pc |-> pc, answered |-> FALSE,
     summary |-> NoSummary, list |-> {}, before |-> before, synced |-> synced,
     clean |-> TRUE, after |-> before]

\* the reactions the backend holds for comment 1 when its widget mounts; the
\* comment list gave their summary as initialReactions
InitialServerReactions ==
    { {Reaction(1, "other", "thumbsup")},
      {Reaction(1, "other", "thumbsup"), Reaction(1, CurrentUser, "thumbsup")} }

\* the widget of comment 1 has just mounted: its mount effect's loadReactions
\* awaits the summary; the widget of comment 2, a comment without reactions,
\* has finished that load
ReactStart ==
    /\ srvReactions \in InitialServerReactions
    /\ reactions = [c \in ReactionComments |-> Summary(srvReactions, c)]
    /\ userReactions = [c \in ReactionComments |-> {}]
    /\ loading = [c \in ReactionComments |-> FALSE]
    /\ showPicker = [c \in ReactionComments |-> FALSE]
    /\ procs = << Proc("mount", 1, "none", "summary", NoDisplay, FALSE),
                  Proc("mount", 2, "none", "done", NoDisplay, FALSE) >>

\* no widget is mounted
ReactIdle ==
    /\ srvReactions = {}
    /\ reactions = [c \in ReactionComments |-> NoSummary]
    /\ userReactions = [c \in ReactionComments |-> {}]
    /\ loading = [c \in ReactionComments |-> FALSE]
    /\ showPicker = [c \in ReactionComments |-> FALSE]
    /\ procs = <<>>

Toggles == {i \in 1..Len(procs) : procs[i].kind = "toggle"}

\* toggleReaction(emoji): from the emoji's reaction button, shown while its
\* count is displayed, or from the picker, which the add-reaction button
\* (disabled while loading) opens first
ToggleReaction(c, e, viaPicker) ==
    /\ Cardinality(Toggles) < MaxToggles
    /\ ~viaPicker => reactions[c][e] > 0
    /\ ~ToggleBlocked(c)
    /\ loading' = [loading EXCEPT ![c] = TRUE]
    /\ showPicker' = [showPicker EXCEPT ![c] = viaPicker \/ showPicker[c]]
    /\ procs' = Append(procs, Proc("toggle", c, e, "post", Display(c), InSync(c)))
    /\ UNCHANGED <<reactions, userReactions, srvReactions>>

\* the POST resolved: the backend toggled; loadReactions() sends the summary GET
PostSucceeds(i) ==
    /\ procs[i].pc = "post"
    /\ srvReactions' = ServerToggle(srvReactions, procs[i].comment, CurrentUser, procs[i].emoji)
    /\ procs' = [procs EXCEPT ![i].pc = "summary"]
    /\ UNCHANGED <<reactions, userReactions, loading, showPicker>>

\* the history fields of a call that ends: only a toggleReaction keeps them
Ended(p, clean, after) ==
    [p EXCEPT !.pc = "done", !.answered = FALSE, !.summary = NoSummary, !.list = {},
              !.clean = IF p.kind = "toggle" THEN clean ELSE TRUE,
              !.after = IF p.kind = "toggle" THEN after ELSE p.before]

\* the POST was rejected: catch, finally setLoading(false)
PostFails(i) ==
    /\ procs[i].pc = "post"
    /\ loading' = [loading EXCEPT ![procs[i].comment] = FALSE]
    /\ procs' = [procs EXCEPT ![i] = Ended(procs[i], FALSE, Display(procs[i].comment))]
    /\ UNCHANGED <<reactions, userReactions, showPicker, srvReactions>>

\* the backend handles a GET: the response carries its state of that moment
ServerAnswers(i) ==
    /\ procs[i].pc \in {"summary", "list"}
    /\ ~procs[i].answered
    /\ procs' = [procs EXCEPT
                   ![i].answered = TRUE,
                   ![i].summary = IF procs[i].pc = "summary"
                                  THEN Summary(srvReactions, procs[i].comment) ELSE @,
                   ![i].list = IF procs[i].pc = "list"
                               THEN ReactionList(srvReactions, procs[i].comment) ELSE @]
    /\ UNCHANGED <<reactions, userReactions, loading, showPicker, srvReactions>>

\* loadReactions: the summary arrived: setReactions, then the list GET is sent
SummaryArrives(i) ==
    /\ procs[i].pc = "summary"
    /\ procs[i].answered
    /\ reactions' = [reactions EXCEPT ![procs[i].comment] = ReactionsFromSummary(procs[i].summary)]
    /\ procs' = [procs EXCEPT ![i].pc = "list", ![i].answered = FALSE, ![i].summary = NoSummary]
    /\ UNCHANGED <<userReactions, loading, showPicker, srvReactions>>

\* (mutant) a toggleReaction whose setLoading(false) is not in a finally
AfterLoadGuardKept(i) ==
    IF procs[i].kind = "toggle"
    THEN /\ showPicker' = [showPicker EXCEPT ![procs[i].comment] = FALSE]
         /\ UNCHANGED loading
    ELSE UNCHANGED <<showPicker, loading>>

\* what follows loadReactions in its caller: nothing for the mount effect;
\* setShowPicker(false) and finally setLoading(false) for toggleReaction
AfterLoad(i) ==
    IF procs[i].kind = "toggle"
    THEN /\ showPicker' = [showPicker EXCEPT ![procs[i].comment] = FALSE]
         /\ loading' = [loading EXCEPT ![procs[i].comment] = FALSE]
    ELSE UNCHANGED <<showPicker, loading>>

\* loadReactions: the list arrived: setUserReactions; the call ends
ListArrives(i) ==
    /\ procs[i].pc = "list"
    /\ procs[i].answered
    /\ userReactions' = [userReactions EXCEPT ![procs[i].comment] = MyReactions(procs[i].list)]
    /\ AfterLoad(i)
    /\ procs' = [procs EXCEPT ![i] = Ended(procs[i], procs[i].clean,
                                          [reactions |-> reactions[procs[i].comment],
                                           userReactions |-> MyReactions(procs[i].list)])]
    /\ UNCHANGED <<reactions, srvReactions>>

\* a GET of loadReactions failed: its catch logs; the call ends
GetFails(i) ==
    /\ procs[i].pc \in {"summary", "list"}
    /\ AfterLoad(i)
    /\ procs' = [procs EXCEPT ![i] = Ended(procs[i], FALSE, Display(procs[i].comment))]
    /\ UNCHANGED <<reactions, userReactions, srvReactions>>

ReactNext ==
    \/ \E c \in ReactionComments, e \in Emojis, viaPicker \in BOOLEAN :
          ToggleReaction(c, e, viaPicker)
    \/ \E i \in 1..Len(procs) : PostSucceeds(i)
    \/ \E i \in 1..Len(procs) : PostFails(i)
    \/ \E i \in 1..Len(procs) : ServerAnswers(i)
    \/ \E i \in 1..Len(procs) : SummaryArrives(i)
    \/ \E i \in 1..Len(procs) : ListArrives(i)
    \/ \E i \in 1..Len(procs) : GetFails(i)

-----------------------------------------------------------------------------
(* QAComments: texts, the mention rule, the backend of the comment store *)

\* the number of async handler calls of QAComments in one behaviour
MaxCalls == 3

\* the length of the texts typed into a field of the mention autocomplete
MaxLen == 2

\* the characters of a text: a letter, the mention sign, a space, a newline
Chars == {"a", "@", " ", "\n"}

\* the white space characters among them
Whitespace == {" ", "\n"}

\* a text is a sequence of characters
TextsUpTo(n) == UNION {[1..k -> Chars] : k \in 0..n}

EmptyText == <<>>

SetMax(S) == CHOOSE x \in S : \A y \in S : y <= x

SetMin(S) == CHOOSE x \in S : \A y \in S : x <= y

\* String.prototype.trim
Trim(text) ==
    LET solid == {i \in 1..Len(text) : text[i] \notin Whitespace}
    IN  IF solid = {} THEN EmptyText ELSE SubSeq(text, SetMin(solid), SetMax(solid))

\* String.prototype.lastIndexOf for one character: 0-based, -1 if absent
LastIndexOf(text, ch) ==
    LET at == {i \in 1..Len(text) : text[i] = ch}
    IN  IF at = {} THEN -1 ELSE SetMax(at) - 1

\* String.prototype.slice(begin, end): a negative index counts from the end
Slice(text, begin, end) ==
    LET n == Len(text)
        from == IF begin < 0 THEN (IF n + begin < 0 THEN 0 ELSE n + begin)
                ELSE (IF begin > n THEN n ELSE begin)
        to == IF end < 0 THEN (IF n + end < 0 THEN 0 ELSE n + end)
              ELSE (IF end > n THEN n ELSE end)
    IN  SubSeq(text, from + 1, to)

\* String.prototype.includes for one character
Includes(text, ch) == \E i \in 1..Len(text) : text[i] = ch

\* text.slice(lastAtIndex + 1)
AfterAt(text) == Slice(text, LastIndexOf(text, "@") + 1, Len(text))

\* handleTextChange: lastAtIndex !== -1 && !afterAt.includes(' ') && afterAt.length > 0
InMention(text) ==
    /\ LastIndexOf(text, "@") # -1
    /\ ~Includes(AfterAt(text), " ")
    /\ Len(AfterAt(text)) > 0

\* the fields handleTextChange and insertMention know
Fields == {"new", "reply", "edit"}

\* activeMentionField === null
NoField == "none"

\* the employee directory behind GET /employees/search: employee_name
Directory == << <<"a", "a">> >>

\* query occurs in name
OccursIn(query, name) ==
    \E k \in 0..(Len(name) - Len(query)) : SubSeq(name, k + 1, k + Len(query)) = query

\* GET /employees/search?q=query: the employees whose name matches
ServerSearch(query) == SelectSeq(Directory, LAMBDA name : OccursIn(query, name))

\* insertMention: currentText.slice(0, lastAtIndex) + `@${employee.employee_name} `
MentionText(currentText, employee_name) ==
    Slice(currentText, 0, LastIndexOf(currentText, "@")) \o <<"@">> \o employee_name \o <<" ">>

\* a comment of the flat list
Comment(id, parent, employee, text) ==
    [comment_id |-> id, parent_comment_id |-> parent, employee_id |-> employee,
     comment_text |-> text]

\* the texts typed into a draft of the comment store: white space only, or a word
StoreTexts == {<<" ">>, <<"b">>}

\* the comments the backend holds when the view mounts: a comment of the
\* current user with one reply of theirs
InitialServerComments ==
    { << Comment(1, Null, CurrentUser, <<"a">>), Comment(2, 1, CurrentUser, <<"a">>) >> }

\* the place of comment id in list (0 if absent)
IndexOfId(list, id) ==
    IF id \in IdsOf(list) THEN CHOOSE i \in 1..Len(list) : list[i].comment_id = id ELSE 0

\* POST /amendments/{id}/qa-comments: the backend appends the new comment
ServerCreate(list, id, parent, text) == Append(list, Comment(id, parent, CurrentUser, text))

\* PATCH /qa-comments/{id}: the backend's comment with the new text
ServerPatched(list, id, text) == [list[IndexOfId(list, id)] EXCEPT !.comment_text = text]

\* DELETE /qa-comments/{id}: the backend removes that comment
ServerDelete(list, id) == SelectSeq(list, LAMBDA c : c.comment_id # id)

\* (mutant) the created comment is appended locally
AfterCreateAppend(list, created) == Append(list, created)

\* handleSubmitComment after the POST: the local list is not touched
AfterCreate(list, created) == list

\* (mutant) a failed load clears the list
AfterLoadErrorCleared(list) == <<>>

\* loadComments catch: setComments is not called
AfterLoadError(list) == list

\* (mutant) a blank draft is submitted
SubmitRefusedNever(textToSubmit) == FALSE

\* handleSubmitComment: if (!textToSubmit.trim()) return
SubmitRefused(textToSubmit) == Trim(textToSubmit) = EmptyText

\* comments.map((c) => (c.comment_id === commentId ? response.data : c))
MapEdited(list, commentId, data) ==
    [i \in 1..Len(list) |-> IF list[i].comment_id = commentId THEN data ELSE list[i]]

\* comments.filter((c) => c.comment_id !== commentId)
FilterDeleted(list, commentId) == SelectSeq(list, LAMBDA c : c.comment_id # commentId)

-----------------------------------------------------------------------------
(* QAComments: state and handlers *)

\* error === null
NoError == "none"

\* the amendments QAComments is shown for; it is mounted for the first
AmendmentIds == {1, 2}

FirstAmendmentId == 1

\* an async handler call: kind "load" is a loadComments of the mount effect
\* or the timer, "create" a handleSubmitComment, "edit" a handleEditComment,
\* "delete" a handleDeleteComment, "search" a searchEmployees; pc is the
\* request it awaits; closure is the comments of the render it was called in;
\* created is the id of the comment its POST created;
\* answered and response hold the backend's answer to the GET of loadComments
Call(kind, pc, id, text, closure) ==
    [kind |-> kind, pc |-> pc, id |-> id, text |-> text, closure |-> closure,
     created |-> Null, answered |-> FALSE, response |-> <<>>]

\* a call that has ended
DoneCall == Call("done", "done", Null, EmptyText, <<>>)

\* the comment with this id is drawn by ThreadedComment: it is a root of the
\* forest or nested under one
RECURSIVE Rendered(_, _, _)
Rendered(list, id, fuel) ==
    /\ fuel > 0
    /\ id \in IdsOf(list)
    /\ LET parent == list[IndexOfId(list, id)].parent_comment_id
       IN  parent = Null \/ Rendered(list, parent, fuel - 1)

\* the view is drawn (not the "Loading comments..." line) and reacts to events
Usable == mounted /\ ~commentsLoading

Drawn(id) == Usable /\ Rendered(comments, id, Len(comments)) /\ editingCommentId # id

\* no mention lookup was ever made
MentionIdle ==
    /\ showMentionSuggestions = FALSE
    /\ mentionSuggestions = <<>>
    /\ mentionQuery = EmptyText
    /\ activeMentionField = NoField

\* QAComments is not mounted
StoreIdle ==
    /\ commentsLoading = TRUE
    /\ error = NoError
    /\ newComment = EmptyText
    /\ replyText = EmptyText
    /\ replyingToId = Null
    /\ editText = EmptyText
    /\ editingCommentId = Null
    /\ submitting = FALSE
    /\ mounted = FALSE
    /\ interval = FALSE
    /\ srvComments = <<>>
    /\ srvNextId = 1
    /\ calls = <<>>

CommentsIdle == StoreIdle /\ MentionIdle /\ amendmentId = FirstAmendmentId

\* QAComments has just mounted: the mount effect called loadComments and
\* started the timer
StoreStart ==
    /\ comments = <<>>
    /\ commentsLoading = TRUE
    /\ error = NoError
    /\ newComment = EmptyText
    /\ replyText = EmptyText
    /\ replyingToId = Null
    /\ editText = EmptyText
    /\ editingCommentId = Null
    /\ submitting = FALSE
    /\ mounted = TRUE
    /\ interval = TRUE
    /\ srvComments \in InitialServerComments
    /\ srvNextId = Len(srvComments) + 1
    /\ calls = << Call("load", "load", Null, EmptyText, <<>>) >>
    /\ MentionIdle
    /\ amendmentId = FirstAmendmentId

\* searchEmployees(query): nothing is sent for an empty query
SearchEmployees(query) ==
    IF Len(query) < 1
    THEN /\ showMentionSuggestions' = FALSE
         /\ UNCHANGED calls
    ELSE /\ Len(calls) < MaxCalls
         /\ calls' = Append(calls, Call("search", "search", Null, query, <<>>))
         /\ UNCHANGED showMentionSuggestions

\* the textarea of this field is drawn and enabled
FieldOpen(field) ==
    /\ Usable
    /\ field = "new" => ~submitting
    /\ field = "reply" => (replyingToId # Null /\ Drawn(replyingToId) /\ ~submitting)
    /\ field = "edit" => (editingCommentId # Null
                            /\ Rendered(comments, editingCommentId, Len(comments)))

\* handleTextChange(text, field): the onChange of the three textareas
HandleTextChange(text, field) ==
    /\ FieldOpen(field)
    /\ newComment' = IF field = "new" THEN text ELSE newComment
    /\ replyText' = IF field = "reply" THEN text ELSE replyText
    /\ editText' = IF field = "edit" THEN text ELSE editText
    /\ IF InMention(text)
       THEN /\ mentionQuery' = AfterAt(text)
            /\ activeMentionField' = field
            /\ SearchEmployees(AfterAt(text))
       ELSE /\ showMentionSuggestions' = FALSE
            /\ UNCHANGED <<mentionQuery, activeMentionField, calls>>
    /\ UNCHANGED <<comments, commentsLoading, error, replyingToId, editingCommentId,
                   submitting, mounted, interval, srvComments, srvNextId, mentionSuggestions>>

\* the response of /employees/search arrived
SearchArrives(i) ==
    /\ calls[i].kind = "search"
    /\ LET employees == ServerSearch(calls[i].text)
       IN  /\ mentionSuggestions' = employees
           /\ showMentionSuggestions' = (Len(employees) > 0)
    /\ calls' = [calls EXCEPT ![i] = DoneCall]
    /\ UNCHANGED <<comments, commentsLoading, error, newComment, replyText, replyingToId,
                   editText, editingCommentId, submitting, mounted, interval, srvComments,
                   srvNextId, mentionQuery, activeMentionField>>

\* /employees/search failed: the catch logs
SearchFails(i) ==
    /\ calls[i].kind = "search"
    /\ calls' = [calls EXCEPT ![i] = DoneCall]
    /\ UNCHANGED <<comments, commentsLoading, error, newComment, replyText, replyingToId,
                   editText, editingCommentId, submitting, mounted, interval, srvComments,
                   srvNextId, mentionVars>>

\* the text of the field insertMention writes to
FieldText(field) ==
    IF field = "new" THEN newComment
    ELSE IF field = "reply" THEN replyText
    ELSE IF field = "edit" THEN editText
    ELSE EmptyText

\* insertMention(employee): a click on a suggestion, drawn under the active
\* field while showMentionSuggestions
InsertMention(k) ==
    /\ showMentionSuggestions
    /\ activeMentionField \in Fields
    /\ FieldOpen(activeMentionField)
    /\ k \in 1..Len(mentionSuggestions)
    /\ LET newText == MentionText(FieldText(activeMentionField), mentionSuggestions[k])
       IN  /\ newComment' = IF activeMentionField = "new" THEN newText ELSE newComment
           /\ replyText' = IF activeMentionField = "reply" THEN newText ELSE replyText
           /\ editText' = IF activeMentionField = "edit" THEN newText ELSE editText
    /\ showMentionSuggestions' = FALSE
    /\ activeMentionField' = NoField
    /\ UNCHANGED <<comments, commentsLoading, error, replyingToId, editingCommentId,
                   submitting, mounted, interval, srvComments, srvNextId, calls,
                   mentionSuggestions, mentionQuery>>

\* the timer of the mount effect fires: loadComments()
TimerFires ==
    /\ interval
    /\ Len(calls) < MaxCalls
    /\ calls' = Append(calls, Call("load", "load", Null, EmptyText, <<>>))
    /\ UNCHANGED <<comments, commentsLoading, error, newComment, replyText, replyingToId,
                   editText, editingCommentId, submitting, mounted, interval, srvComments,
                   srvNextId, mentionVars>>

\* the view unmounts: the effect's cleanup runs clearInterval(interval)
Unmount ==
    /\ mounted
    /\ mounted' = FALSE
    /\ interval' = FALSE
    /\ UNCHANGED <<comments, commentsLoading, error, newComment, replyText, replyingToId,
                   editText, editingCommentId, submitting, srvComments, srvNextId, calls,
                   mentionVars>>

\* handleReply(commentId): the Reply button of a drawn comment
HandleReply(commentId) ==
    /\ Drawn(commentId)
    /\ replyingToId # commentId
    /\ replyingToId' = commentId
    /\ replyText' = EmptyText
    /\ UNCHANGED <<comments, commentsLoading, error, newComment, editText, editingCommentId,
                   submitting, mounted, interval, srvComments, srvNextId, calls, mentionVars>>

\* cancelReply: the Cancel button of the reply form
CancelReply ==
    /\ replyingToId # Null /\ Drawn(replyingToId)
    /\ replyingToId' = Null
    /\ replyText' = EmptyText
    /\ UNCHANGED <<comments, commentsLoading, error, newComment, editText, editingCommentId,
                   submitting, mounted, interval, srvComments, srvNextId, calls, mentionVars>>

\* the Edit and Delete buttons are drawn for the current user's own comments
Own(commentId) == comments[IndexOfId(comments, commentId)].employee_id = CurrentUser

\* startEditComment(comment)
StartEditComment(commentId) ==
    /\ Drawn(commentId) /\ Own(commentId)
    /\ editingCommentId' = commentId
    /\ editText' = comments[IndexOfId(comments, commentId)].comment_text
    /\ UNCHANGED <<comments, commentsLoading, error, newComment, replyText, replyingToId,
                   submitting, mounted, interval, srvComments, srvNextId, calls, mentionVars>>

\* cancelEdit: the Cancel button of the edit form
CancelEdit ==
    /\ FieldOpen("edit")
    /\ editingCommentId' = Null
    /\ editText' = EmptyText
    /\ UNCHANGED <<comments, commentsLoading, error, newComment, replyText, replyingToId,
                   submitting, mounted, interval, srvComments, srvNextId, calls, mentionVars>>

\* handleSubmitComment(e, parentCommentId): the form of a new comment
\* (parentCommentId null) or the Post Reply button of the reply form
HandleSubmitComment(parentCommentId) ==
    /\ Usable /\ ~submitting
    /\ parentCommentId # Null => (replyingToId = parentCommentId /\ Drawn(parentCommentId))
    /\ LET textToSubmit == IF parentCommentId # Null THEN replyText ELSE newComment
       IN  IF SubmitRefused(textToSubmit)
           THEN UNCHANGED <<submitting, error, calls>>
           ELSE /\ Len(calls) < MaxCalls
                /\ submitting' = TRUE
                /\ error' = NoError
                /\ calls' = Append(calls, Call("create", "post", parentCommentId,
                                               textToSubmit, <<>>))
    /\ UNCHANGED <<comments, commentsLoading, newComment, replyText, replyingToId, editText,
                   editingCommentId, mounted, interval, srvComments, srvNextId, mentionVars>>

\* the POST resolved: the backend created the comment; loadComments() is called
CreateSucceeds(i) ==
    /\ calls[i].kind = "create" /\ calls[i].pc = "post"
    /\ srvComments' = ServerCreate(srvComments, srvNextId, calls[i].id, calls[i].text)
    /\ srvNextId' = srvNextId + 1
    /\ comments' = AfterCreate(comments,
                               Comment(srvNextId, calls[i].id, CurrentUser, calls[i].text))
    /\ calls' = [calls EXCEPT ![i].pc = "load", ![i].text = EmptyText,
                              ![i].created = srvNextId]
    /\ UNCHANGED <<commentsLoading, error, newComment, replyText, replyingToId, editText,
                   editingCommentId, submitting, mounted, interval, mentionVars>>

\* (mutant) the catch sends the POST again
CreateFailsRetry(i) ==
    /\ calls[i].kind = "create" /\ calls[i].pc = "post"
    /\ error' = "Failed to create comment"
    /\ submitting' = FALSE
    /\ calls' = Append([calls EXCEPT ![i] = DoneCall], calls[i])
    /\ UNCHANGED <<comments, commentsLoading, newComment, replyText, replyingToId, editText,
                   editingCommentId, mounted, interval, srvComments, srvNextId, mentionVars>>

\* the POST was rejected: catch setError, finally setSubmitting(false)
CreateFails(i) ==
    /\ calls[i].kind = "create" /\ calls[i].pc = "post"
    /\ error' = "Failed to create comment"
    /\ submitting' = FALSE
    /\ calls' = [calls EXCEPT ![i] = DoneCall]
    /\ UNCHANGED <<comments, commentsLoading, newComment, replyText, replyingToId, editText,
                   editingCommentId, mounted, interval, srvComments, srvNextId, mentionVars>>

\* the backend handles the GET of a loadComments: the response carries its
\* list of that moment
ServerAnswersLoad(i) ==
    /\ calls[i].pc = "load"
    /\ ~calls[i].answered
    /\ calls' = [calls EXCEPT ![i].answered = TRUE, ![i].response = srvComments]
    /\ UNCHANGED <<comments, commentsLoading, error, newComment, replyText, replyingToId,
                   editText, editingCommentId, submitting, mounted, interval, srvComments,
                   srvNextId, mentionVars>>

\* what follows `await loadComments()` in handleSubmitComment: the draft that
\* was submitted is cleared, finally setSubmitting(false); nothing follows a
\* loadComments of the effect or the timer
AfterLoadComments(i) ==
    IF calls[i].kind = "create"
    THEN /\ submitting' = FALSE
         /\ IF calls[i].id # Null
            THEN /\ replyText' = EmptyText
                 /\ replyingToId' = Null
                 /\ UNCHANGED newComment
            ELSE /\ newComment' = EmptyText
                 /\ UNCHANGED <<replyText, replyingToId>>
    ELSE UNCHANGED <<submitting, newComment, replyText, replyingToId>>

\* loadComments: the GET resolved: setComments(response.data.items || []),
\* setLoading(false)
LoadArrives(i) ==
    /\ calls[i].pc = "load"
    /\ calls[i].answered
    /\ comments' = calls[i].response
    /\ commentsLoading' = FALSE
    /\ AfterLoadComments(i)
    /\ calls' = [calls EXCEPT ![i] = DoneCall]
    /\ UNCHANGED <<error, editText, editingCommentId, mounted, interval, srvComments,
                   srvNextId, mentionVars>>

\* loadComments: the GET was rejected: setError, setLoading(false)
LoadFails(i) ==
    /\ calls[i].pc = "load"
    /\ comments' = AfterLoadError(comments)
    /\ error' = "Failed to load comments"
    /\ commentsLoading' = FALSE
    /\ AfterLoadComments(i)
    /\ calls' = [calls EXCEPT ![i] = DoneCall]
    /\ UNCHANGED <<editText, editingCommentId, mounted, interval, srvComments, srvNextId,
                   mentionVars>>

\* handleEditComment(commentId): the Save button of the edit form
HandleEditComment(commentId) ==
    /\ FieldOpen("edit")
    /\ editingCommentId = commentId
    /\ IF Trim(editText) = EmptyText
       THEN UNCHANGED calls
       ELSE /\ Len(calls) < MaxCalls
            /\ calls' = Append(calls, Call("edit", "patch", commentId, editText, comments))
    /\ UNCHANGED <<comments, commentsLoading, error, newComment, replyText, replyingToId,
                   editText, editingCommentId, submitting, mounted, interval, srvComments,
                   srvNextId, mentionVars>>

\* the PATCH resolved: the backend holds the new text and returned the comment
PatchSucceeds(i) ==
    /\ calls[i].kind = "edit"
    /\ calls[i].id \in IdsOf(srvComments)
    /\ LET data == ServerPatched(srvComments, calls[i].id, calls[i].text)
       IN  /\ srvComments' = MapEdited(srvComments, calls[i].id, data)
           /\ comments' = MapEdited(calls[i].closure, calls[i].id, data)
    /\ editingCommentId' = Null
    /\ editText' = EmptyText
    /\ calls' = [calls EXCEPT ![i] = DoneCall]
    /\ UNCHANGED <<commentsLoading, error, newComment, replyText, replyingToId, submitting,
                   mounted, interval, srvNextId, mentionVars>>

\* the PATCH was rejected: catch setError
PatchFails(i) ==
    /\ calls[i].kind = "edit"
    /\ error' = "Failed to update comment"
    /\ calls' = [calls EXCEPT ![i] = DoneCall]
    /\ UNCHANGED <<comments, commentsLoading, newComment, replyText, replyingToId, editText,
                   editingCommentId, submitting, mounted, interval, srvComments, srvNextId,
                   mentionVars>>

\* handleDeleteComment(commentId): the Delete button of an own comment, then
\* window.confirm
HandleDeleteComment(commentId, confirmed) ==
    /\ Drawn(commentId) /\ Own(commentId)
    /\ IF confirmed
       THEN /\ Len(calls) < MaxCalls
            /\ calls' = Append(calls, Call("delete", "delete", commentId, EmptyText, comments))
       ELSE UNCHANGED calls
    /\ UNCHANGED <<comments, commentsLoading, error, newComment, replyText, replyingToId,
                   editText, editingCommentId, submitting, mounted, interval, srvComments,
                   srvNextId, mentionVars>>

\* the DELETE resolved: the backend removed the comment
DeleteSucceeds(i) ==
    /\ calls[i].kind = "delete"
    /\ calls[i].id \in IdsOf(srvComments)
    /\ srvComments' = ServerDelete(srvComments, calls[i].id)
    /\ comments' = FilterDeleted(calls[i].closure, calls[i].id)
    /\ calls' = [calls EXCEPT ![i] = DoneCall]
    /\ UNCHANGED <<commentsLoading, error, newComment, replyText, replyingToId, editText,
                   editingCommentId, submitting, mounted, interval, srvNextId, mentionVars>>

\* the DELETE was rejected: catch setError
DeleteFails(i) ==
    /\ calls[i].kind = "delete"
    /\ error' = "Failed to delete comment"
    /\ calls' = [calls EXCEPT ![i] = DoneCall]
    /\ UNCHANGED <<comments, commentsLoading, newComment, replyText, replyingToId, editText,
                   editingCommentId, submitting, mounted, interval, srvComments, srvNextId,
                   mentionVars>>

\* the texts of existing comments and drafts stay within StoreTexts
StoreNext ==
    \/ TimerFires
    \/ Unmount
    \/ \E text \in StoreTexts, field \in Fields : HandleTextChange(text, field)
    \/ \E id \in IdsOf(comments) : HandleReply(id)
    \/ CancelReply
    \/ \E id \in IdsOf(comments) : StartEditComment(id)
    \/ CancelEdit
    \/ \E parent \in {Null} \cup IdsOf(comments) : HandleSubmitComment(parent)
    \/ \E i \in 1..Len(calls) : CreateSucceeds(i)
    \/ \E i \in 1..Len(calls) : CreateFails(i)
    \/ \E i \in 1..Len(calls) : ServerAnswersLoad(i)
    \/ \E i \in 1..Len(calls) : LoadArrives(i)
    \/ \E i \in 1..Len(calls) : LoadFails(i)
    \/ \E id \in IdsOf(comments) : HandleEditComment(id)
    \/ \E i \in 1..Len(calls) : PatchSucceeds(i)
    \/ \E i \in 1..Len(calls) : PatchFails(i)
    \/ \E id \in IdsOf(comments), confirmed \in BOOLEAN : HandleDeleteComment(id, confirmed)
    \/ \E i \in 1..Len(calls) : DeleteSucceeds(i)
    \/ \E i \in 1..Len(calls) : DeleteFails(i)

\* the view with its list loaded and a reply form open on comment 1
MentionStart ==
    /\ srvComments = << Comment(1, Null, CurrentUser, <<"a">>) >>
    /\ srvNextId = Len(srvComments) + 1
    /\ comments = srvComments
    /\ commentsLoading = FALSE
    /\ error = NoError
    /\ newComment = EmptyText
    /\ replyText = EmptyText
    /\ replyingToId = comments[1].comment_id
    /\ editText = EmptyText
    /\ editingCommentId = Null
    /\ submitting = FALSE
    /\ mounted = TRUE
    /\ interval = TRUE
    /\ calls = << DoneCall >>
    /\ MentionIdle
    /\ amendmentId = FirstAmendmentId

MentionNext ==
    \/ \E text \in TextsUpTo(MaxLen), field \in Fields : HandleTextChange(text, field)
    \/ \E i \in 1..Len(calls) : SearchArrives(i)
    \/ \E i \in 1..Len(calls) : SearchFails(i)
    \/ \E k \in 1..Len(mentionSuggestions) : InsertMention(k)

-----------------------------------------------------------------------------
(* QASection: actions *)

QAStart ==
    /\ qaData \in Amendments
    /\ showAssignModal = FALSE
    /\ showNotesModal = FALSE
    /\ clock = FirstTick
    /\ reqs = <<>>
    /\ outcome = <<>>
    /\ server = qaData
    /\ formData = qaData
    /\ noteEdits = 0
    /\ notesBefore = qaData.qa_notes

\* the panel alone: no comment list is loaded
QAInit == QAStart /\ TreeIdle /\ ReactIdle /\ CommentsIdle

\* (mutant) no status button is ever disabled
HandleStatusChangeUnguarded(newStatus) ==
    /\ NoModal
    /\ LET updates == StatusUpdates(qaData, newStatus, clock)
       IN  /\ Issue(Request("status", "qa_status", qaData, updates))
           /\ qaData' = OptimisticSet(updates)
    /\ UNCHANGED <<showAssignModal, showNotesModal, server, formData, noteEdits, notesBefore>>

\* a status button is clicked; 'Assigned' and 'In Testing' are disabled
\* while no assignee is set
HandleStatusChange(newStatus) ==
    /\ NoModal
    /\ newStatus \in {"Assigned", "In Testing"} => qaData.qa_assigned_id # Null
    /\ LET updates == StatusUpdates(qaData, newStatus, clock)
       IN  /\ Issue(Request("status", "qa_status", qaData, updates))
           /\ qaData' = OptimisticSet(updates)
    /\ UNCHANGED <<showAssignModal, showNotesModal, server, formData, noteEdits, notesBefore>>

OpenAssignModal ==
    /\ NoModal
    /\ showAssignModal' = TRUE
    /\ UNCHANGED <<qaData, showNotesModal, clock, reqs, outcome, server, formData, noteEdits, notesBefore>>

CloseAssignModal ==
    /\ showAssignModal
    /\ showAssignModal' = FALSE
    /\ UNCHANGED <<qaData, showNotesModal, clock, reqs, outcome, server, formData, noteEdits, notesBefore>>

HandleAssign(employeeId) ==
    /\ showAssignModal
    /\ LET updates == AssignUpdates(qaData, employeeId, clock)
       IN  /\ Issue(Request("assign", "qa_assigned_id", qaData, updates))
           /\ qaData' = OptimisticSet(updates)
    /\ showAssignModal' = FALSE
    /\ UNCHANGED <<showNotesModal, server, formData, noteEdits, notesBefore>>

HandleChecklistChange(field) ==
    /\ NoModal
    /\ LET updates == ChecklistUpdates(qaData, field)
       IN  /\ Issue(Request("checklist", field, qaData, updates))
           /\ qaData' = OptimisticSet(updates)
    /\ UNCHANGED <<showAssignModal, showNotesModal, server, formData, noteEdits, notesBefore>>

HandleOverallResultChange(result) ==
    /\ NoModal
    /\ result # qaData.qa_overall_result      \* onChange of the select
    /\ LET updates == OverallResultUpdates(qaData, result)
       IN  /\ Issue(Request("result", "qa_overall_result", qaData, updates))
           /\ qaData' = OptimisticSet(updates)
    /\ UNCHANGED <<showAssignModal, showNotesModal, server, formData, noteEdits, notesBefore>>

OpenNotesModal ==
    /\ NoModal
    /\ showNotesModal' = TRUE
    /\ notesBefore' = qaData.qa_notes
    /\ UNCHANGED <<qaData, showAssignModal, clock, reqs, outcome, server, formData, noteEdits>>

\* Cancel, the close button or a click on the backdrop
CloseNotesModal ==
    /\ showNotesModal
    /\ showNotesModal' = FALSE
    /\ UNCHANGED <<qaData, showAssignModal, clock, reqs, outcome, server, formData, noteEdits, notesBefore>>

\* the textarea's onChange: setQaData({ ...qaData, qa_notes: e.target.value })
EditNotes(text) ==
    /\ showNotesModal
    /\ text # qaData.qa_notes
    /\ Len(reqs) + noteEdits < MaxOps
    /\ qaData' = [qaData EXCEPT !.qa_notes = text]
    /\ noteEdits' = noteEdits + 1
    /\ UNCHANGED <<showAssignModal, showNotesModal, clock, reqs, outcome, server, formData, notesBefore>>

\* Save Notes: no snapshot is taken; the current qaData is the payload
HandleSaveNotes ==
    /\ showNotesModal
    /\ showNotesModal' = FALSE
    /\ Issue(Request("notes", "qa_notes", qaData, qaData))
    /\ UNCHANGED <<qaData, showAssignModal, server, formData, noteEdits, notesBefore>>

\* updateQA resolves: the backend stored the payload, onUpdate(updates) runs
UpdateQASucceeds(i) ==
    /\ outcome[i] = "pending"
    /\ outcome' = [outcome EXCEPT ![i] = "ok"]
    /\ server' = reqs[i].payload
    /\ formData' = reqs[i].payload
    /\ UNCHANGED <<qaData, showAssignModal, showNotesModal, clock, reqs, noteEdits, notesBefore>>

\* updateQA rejects: the catch block runs
UpdateQAFails(i) ==
    /\ outcome[i] = "pending"
    /\ outcome' = [outcome EXCEPT ![i] = "failed"]
    /\ qaData' = AfterCatch(reqs[i], qaData)
    /\ UNCHANGED <<showAssignModal, showNotesModal, clock, reqs, server, formData, noteEdits, notesBefore>>

QANext ==
    \/ \E s \in StatusButtons : HandleStatusChange(s)
    \/ OpenAssignModal
    \/ CloseAssignModal
    \/ \E e \in EmployeeIds : HandleAssign(e)
    \/ \E f \in ChecklistFields : HandleChecklistChange(f)
    \/ \E r \in OverallResults : HandleOverallResultChange(r)
    \/ OpenNotesModal
    \/ CloseNotesModal
    \/ \E t \in NoteTexts : EditNotes(t)
    \/ HandleSaveNotes
    \/ \E i \in 1..Len(reqs) : UpdateQASucceeds(i)
    \/ \E i \in 1..Len(reqs) : UpdateQAFails(i)

SpecQA == QAInit /\ [][QANext /\ UNCHANGED <<treeVars, reactVars, commentVars>>]_vars

-----------------------------------------------------------------------------
(* QASection: properties *)

\* request i is rejected in this step
FailsNow(i) == outcome[i] = "pending" /\ outcome'[i] = "failed"

\* a request is issued in this step
IssuesNow == Len(reqs') = Len(reqs) + 1

\* C1: when the updateQA call of handleStatusChange, handleAssign,
\* handleChecklistChange or handleOverallResultChange fails and no other
\* mutation was issued after it, the qaData left by the failure is, field for
\* field, the qaData that held when the mutation was attempted.
C1_MutationRollback ==
    [][\A i \in 1..Len(reqs) :
          (FailsNow(i) /\ reqs[i].handler \in {"status", "assign", "checklist", "result"}
             /\ i = Len(reqs))
          => qaData' = reqs[i].prevData]_vars

\* C1 witness: a status change to 'Passed' stamped the completion, its request
\* failed and the record is back to the unstamped one
C1_Witness ==
    \E i \in 1..Len(reqs) :
        /\ i = Len(reqs)
        /\ outcome[i] = "failed"
        /\ reqs[i].handler = "status"
        /\ reqs[i].payload.qa_status = "Passed"
        /\ reqs[i].payload.qa_completed /\ reqs[i].payload.qa_completed_date # Null
        /\ qaData = reqs[i].prevData
        /\ ~qaData.qa_completed /\ qaData.qa_completed_date = Null
        /\ qaData.qa_status # "Passed"

\* C2: a failure of a request that arrives after a later request on the same
\* field has succeeded does not change the displayed value of that field.
C2_LastWriteWins ==
    [][\A i \in 1..Len(reqs) :
          (FailsNow(i) /\ \E j \in (i+1)..Len(reqs) :
                              reqs[j].field = reqs[i].field /\ outcome[j] = "ok")
          => qaData'[reqs[i].field] = qaData[reqs[i].field]]_vars

\* C3: when saving the notes fails, qa_notes is reset to the value it had
\* before the user's change in the notes modal.
C3_NotesRollback ==
    [][\A i \in 1..Len(reqs) :
          (FailsNow(i) /\ reqs[i].handler = "notes")
          => qaData'.qa_notes = notesBefore]_vars

\* C8: handleStatusChange stamps qa_started_date on 'In Testing' only when it
\* was unset, sets qa_completed and stamps qa_completed_date on 'Passed' and
\* 'Failed', leaves the three fields alone otherwise, and sets locally the
\* same stamped record that it sends to updateQA.
C8_StatusStamps ==
    [][(IssuesNow /\ reqs'[Len(reqs')].handler = "status")
       => LET u == reqs'[Len(reqs')].payload
              s == u.qa_status
          IN  /\ qaData' = u
              /\ u = [qaData EXCEPT !.qa_status = s,
                                    !.qa_started_date = u.qa_started_date,
                                    !.qa_completed = u.qa_completed,
                                    !.qa_completed_date = u.qa_completed_date]
              /\ u.qa_started_date =
                     IF s = "In Testing" /\ qaData.qa_started_date = Null
                     THEN clock ELSE qaData.qa_started_date
              /\ s = "In Testing" => u.qa_started_date # Null
              /\ s \in {"Passed", "Failed"}
                     => u.qa_completed /\ u.qa_completed_date = clock /\ clock # Null
              /\ s \notin {"Passed", "Failed"}
                     => /\ u.qa_completed = qaData.qa_completed
                        /\ u.qa_completed_date = qaData.qa_completed_date]_vars

\* C8 witness: 'In Testing' was chosen with a started stamp already set and
\* kept it, and a move to 'Passed' or 'Failed' stamped the completion
C8_Witness ==
    /\ \E i \in 1..Len(reqs) :
          /\ reqs[i].handler = "status"
          /\ reqs[i].payload.qa_status = "In Testing"
          /\ reqs[i].prevData.qa_started_date # Null
          /\ reqs[i].payload.qa_started_date = reqs[i].prevData.qa_started_date
    /\ \E j \in 1..Len(reqs) :
          /\ reqs[j].handler = "status"
          /\ reqs[j].payload.qa_status \in {"Passed", "Failed"}
          /\ ~reqs[j].prevData.qa_completed
          /\ reqs[j].payload.qa_completed
          /\ reqs[j].payload.qa_completed_date # Null

-----------------------------------------------------------------------------
(* buildCommentTree: specification and properties *)

\* the panel idle, as constructed from the default amendment
QAIdle ==
    /\ qaData = FreshAmendment
    /\ showAssignModal = FALSE
    /\ showNotesModal = FALSE
    /\ clock = FirstTick
    /\ reqs = <<>>
    /\ outcome = <<>>
    /\ server = FreshAmendment
    /\ formData = FreshAmendment
    /\ noteEdits = 0
    /\ notesBefore = ""

TreeInit == TreeStart /\ QAIdle /\ ReactIdle /\ CommentsIdle

TreeNext == Render /\ UNCHANGED <<qaVars, reactVars, commentVars>>

SpecTree == TreeInit /\ [][TreeNext]_vars

\* the number of times id occurs in the sequence s
Count(id, s) == Cardinality({k \in 1..Len(s) : s[k] = id})

\* the place of the comment with this id in the flat list
Pos(id) == CHOOSE i \in 1..Len(comments) : comments[i].comment_id = id

\* s lists comments in the order of the flat list
InListOrder(s) == \A k, l \in 1..Len(s) : k < l => Pos(s[k]) < Pos(s[l])

\* the parent references of the list hold no cycle: from every comment the
\* chain of parents ends within Len(comments) steps
RECURSIVE EndsWithin(_, _)
EndsWithin(id, k) ==
    \/ id = Null
    \/ id \notin IdsOf(comments)
    \/ k > 0 /\ EndsWithin(comments[Pos(id)].parent_comment_id, k - 1)

Acyclic == \A id \in IdsOf(comments) : EndsWithin(id, Len(comments))

\* the forest written out: each node with its nested replies
RECURSIVE Nested(_, _)
Nested(t, id) ==
    [id |-> id,
     children |-> [k \in 1..Len(t.commentMap[id].replies) |->
                      Nested(t, t.commentMap[id].replies[k])]]

Forest(t) == [k \in 1..Len(t.rootComments) |-> Nested(t, t.rootComments[k])]

Leaf(id) == [id |-> id, children |-> <<>>]

\* [1[2[4]], 3]
ExampleForest ==
    << [id |-> 1, children |-> << [id |-> 2, children |-> << Leaf(4) >>] >>],
       Leaf(3) >>

\* C4: a comment whose parent id is not in the list is a root of the forest.
C4_OrphanIsRoot ==
    builds > 0 =>
        \A i \in 1..Len(comments) :
            (comments[i].parent_comment_id # Null
               /\ comments[i].parent_comment_id \notin IdsOf(comments))
            => Count(comments[i].comment_id, tree.rootComments) = 1

\* C5: a comment without parent is a root; a comment whose parent is in the
\* list is once in the replies of that parent's node, in no other node's
\* replies and not a root; the list 1, 2(1), 3, 4(2) gives [1[2[4]], 3].
C5_Placement ==
    builds > 0 =>
        /\ \A i \in 1..Len(comments) :
              LET c == comments[i] IN
              /\ c.parent_comment_id = Null
                    => Count(c.comment_id, tree.rootComments) = 1
              /\ c.parent_comment_id \in IdsOf(comments)
                    => /\ Count(c.comment_id,
                                tree.commentMap[c.parent_comment_id].replies) = 1
                       /\ \A p \in IdsOf(comments) \ {c.parent_comment_id} :
                             Count(c.comment_id, tree.commentMap[p].replies) = 0
                       /\ Count(c.comment_id, tree.rootComments) = 0
        /\ comments = ExampleList => Forest(tree) = ExampleForest

\* C5 witness: the example list was rendered
C5_Witness ==
    /\ builds > 0
    /\ comments = ExampleList
    /\ tree.rootComments = <<1, 3>>
    /\ tree.commentMap[1].replies = <<2>>
    /\ tree.commentMap[2].replies = <<4>>

\* C6: the roots, and the replies of every node, are in the order of the
\* flat list.
C6_OrderPreserved ==
    builds > 0 =>
        /\ InListOrder(tree.rootComments)
        /\ \A id \in IdsOf(comments) : InListOrder(tree.commentMap[id].replies)

\* C6 witness: two roots and two replies of one parent, the replies listed
\* before their parent and in descending id order
C6_Witness ==
    /\ builds > 0
    /\ Len(comments) = 3
    /\ comments[1].comment_id = 3 /\ comments[2].comment_id = 2
    /\ comments[3].comment_id = 1
    /\ tree.commentMap[1].replies = <<3, 2>>
    /\ tree.rootComments = <<1>>

-----------------------------------------------------------------------------
(* CommentReactions: specification and properties *)

ReactInit == ReactStart /\ QAIdle /\ TreeIdle /\ CommentsIdle

SpecReactions == ReactInit /\ [][ReactNext /\ UNCHANGED <<qaVars, treeVars, commentVars>>]_vars

\* the toggleReaction calls of comment c whose requests are not all done
Outstanding(c) == {i \in Toggles : procs[i].comment = c /\ procs[i].pc # "done"}

TwoToggles(i, j) ==
    /\ i < j
    /\ procs[i].comment = procs[j].comment
    /\ procs[i].emoji = procs[j].emoji
    /\ procs[i].pc = "done" /\ procs[j].pc = "done"
    /\ procs[i].clean /\ procs[j].clean
    /\ \A k \in Toggles : (i < k /\ k < j) => procs[k].comment # procs[i].comment

\* what two toggles of one emoji do to the display
BackToBefore(i, j) ==
    LET e == procs[i].emoji IN
    /\ procs[j].after = procs[i].before
    /\ e \notin procs[i].before.userReactions
          => /\ procs[i].after.reactions[e] = procs[i].before.reactions[e] + 1
             /\ e \in procs[i].after.userReactions
             /\ procs[j].after.reactions[e] = procs[i].after.reactions[e] - 1
             /\ e \notin procs[j].after.userReactions

ServerDisplay(c) ==
    [reactions |-> Summary(srvReactions, c),
     userReactions |-> {e \in Emojis : Reaction(c, CurrentUser, e) \in srvReactions}]

\* toggleReaction i, whose POST succeeded, ends in this step
EndsPosted(i) ==
    /\ procs[i].kind = "toggle"
    /\ procs[i].pc \in {"summary", "list"}
    /\ i \in DOMAIN procs' /\ procs'[i].pc = "done"

\* C11: a toggleReaction whose POST succeeded ends (releases the guard) only
\* when the list response of its reload has arrived, the summary before it,
\* and the widget then shows the backend's state after the toggle.
C11_ReloadBeforeRelease ==
    [][\A i \in 1..Len(procs) :
          EndsPosted(i) =>
             /\ procs[i].pc = "list" /\ procs[i].answered
             /\ Display(procs[i].comment)' = ServerDisplay(procs[i].comment)']_vars

-----------------------------------------------------------------------------
(* QAComments: specifications and properties *)

\* the forest of the comment store is not built here
NoRender == tree = NoTree /\ prevTree = NoTree /\ builds = 0 /\ RenderIdle

StoreInit == StoreStart /\ NoRender /\ QAIdle /\ ReactIdle

SpecStore ==
    StoreInit /\ [][StoreNext /\ UNCHANGED <<qaVars, reactVars, tree, prevTree, builds, renderVars, entityVars>>]_vars

MentionInit == MentionStart /\ NoRender /\ QAIdle /\ ReactIdle

SpecMention ==
    MentionInit /\ [][MentionNext /\ UNCHANGED <<qaVars, reactVars, tree, prevTree, builds, renderVars, entityVars>>]_vars

\* handleSubmitComment call i is awaiting its POST
Posting(i) == calls[i].kind = "create" /\ calls[i].pc = "post"

\* C12: the step in which the POST of a handleSubmitComment resolves leaves
\* the local list as it is and issues loadComments; when that load succeeds
\* the local list becomes the list of its response, which holds the created
\* comment as long as the backend still has it.
C12_CreateReloads ==
    [][\A i \in 1..Len(calls) :
          /\ CreateSucceeds(i) => (comments' = comments /\ calls'[i].pc = "load"
                                     /\ ~calls'[i].answered)
          /\ (calls[i].kind = "create" /\ LoadArrives(i)) =>
                /\ comments' = calls[i].response
                /\ calls[i].created \in IdsOf(srvComments)
                      => calls[i].created \in IdsOf(comments')]_vars

\* C12 witness: a submitted comment is in the local list, placed there by the
\* reload, and its draft is cleared
C12_Witness ==
    /\ \E k \in 1..Len(comments) :
          comments[k].comment_id > Len(CHOOSE l \in InitialServerComments : TRUE)
    /\ comments = srvComments
    /\ newComment = EmptyText
    /\ ~submitting
    /\ \A i \in 1..Len(calls) : calls[i] = DoneCall

\* the drafts handleSubmitComment reads
Drafts == <<newComment, replyText, replyingToId>>

\* C13: a rejected create POST leaves the drafts and the local list as they
\* are and sets the error message; no create request carries an empty or
\* white-space-only draft.
C13_CreateErrorKeepsDraft ==
    [][/\ \A i \in 1..Len(calls) :
             CreateFails(i) => /\ Drafts' = Drafts
                               /\ comments' = comments
                               /\ error' = "Failed to create comment"
       /\ \A i \in 1..Len(calls') :
             (calls'[i].kind = "create" /\ calls'[i].pc = "post")
                => Trim(calls'[i].text) # EmptyText]_vars

\* C13 witness: a create was rejected and the draft is still in the field,
\* while a white-space-only reply draft has produced no request
C13_Witness ==
    /\ error = "Failed to create comment"
    /\ newComment = <<"b">>
    /\ replyText = <<" ">>
    /\ ~submitting
    /\ Len(comments) > 0
    /\ Len(calls) = 2 /\ calls[2] = DoneCall

\* C14: a PATCH that succeeds changes, in the local list, the entry of the
\* edited id to the returned comment and nothing else: same length, same ids
\* in the same order, other entries as before; a PATCH that fails leaves the
\* list as it is and sets the error.
C14_EditPatchesOne ==
    [][\A i \in 1..Len(calls) :
          /\ PatchSucceeds(i) =>
                /\ Len(comments') = Len(comments)
                /\ \A k \in 1..Len(comments) :
                      IF comments[k].comment_id = calls[i].id
                      THEN comments'[k] = srvComments'[IndexOfId(srvComments', calls[i].id)]
                      ELSE comments'[k] = comments[k]
          /\ PatchFails(i) => (comments' = comments /\ error' = "Failed to update comment")]_vars

\* C15: a click on Delete leaves the local list alone; a DELETE that
\* succeeds removes from the local list exactly the comment with that id,
\* its replies included in what stays; a DELETE that fails leaves the list
\* as it is and sets the error.
C15_DeleteConfirmed ==
    [][/\ \A id \in IdsOf(comments), confirmed \in BOOLEAN :
             HandleDeleteComment(id, confirmed) => comments' = comments
       /\ \A i \in 1..Len(calls) :
             /\ DeleteSucceeds(i) => comments' = FilterDeleted(comments, calls[i].id)
             /\ DeleteFails(i) => (comments' = comments
                                     /\ error' = "Failed to delete comment")]_vars

\* C16: after a DELETE succeeded, buildCommentTree of the new local list has
\* every direct reply of the deleted comment as a root, and every comment of
\* the list is a root of the forest or nested under one.
C16_RepliesBecomeRoots ==
    [][\A i \in 1..Len(calls) :
          DeleteSucceeds(i) =>
             LET t == BuildCommentTree(comments') IN
             \A k \in 1..Len(comments') :
                /\ comments'[k].parent_comment_id = calls[i].id
                      => Count(comments'[k].comment_id, t.rootComments) = 1
                /\ Rendered(comments', comments'[k].comment_id, Len(comments'))]_vars

\* C17: a loadComments whose GET fails leaves the local list as it is, sets
\* the error message and turns loading off; the view stays mounted.
C17_LoadErrorKeepsList ==
    [][\A i \in 1..Len(calls) :
          LoadFails(i) => /\ comments' = comments
                          /\ error' = "Failed to load comments"
                          /\ commentsLoading' = FALSE
                          /\ mounted' = mounted]_vars

\* C17 witness: a periodic load failed and the list loaded before is kept
C17_Witness ==
    /\ error = "Failed to load comments"
    /\ ~commentsLoading
    /\ comments = srvComments /\ Len(comments) > 0
    /\ Len(calls) = 2 /\ \A i \in 1..Len(calls) : calls[i] = DoneCall
    /\ mounted

\* the state of the component
ComponentState ==
    <<comments, commentsLoading, error, newComment, replyText, replyingToId, editText,
      editingCommentId, submitting, mentionVars>>

ClaimedInMention(text) ==
    /\ Includes(text, "@")
    /\ Len(AfterAt(text)) >= 1
    /\ \A k \in 1..Len(AfterAt(text)) : AfterAt(text)[k] \notin Whitespace

\* C19: handleTextChange issues a directory lookup, and makes the text after
\* the last '@' the query of its field, exactly when the claimed trigger rule
\* holds of the text.
C19_MentionTrigger ==
    [][\A text \in TextsUpTo(MaxLen), field \in Fields :
          HandleTextChange(text, field) =>
             /\ (Len(calls') > Len(calls)) <=> ClaimedInMention(text)
             /\ ClaimedInMention(text) => /\ mentionQuery' = AfterAt(text)
                                           /\ activeMentionField' = field]_vars

\* C20: insertMention finds an active token in the active field (an '@'
\* followed by no white space), replaces it by '@', the name and a space,
\* keeps the text before it, leaves the other fields alone, closes the list
\* and leaves no field active.
C20_MentionSelection ==
    [][\A k \in 1..Len(mentionSuggestions), field \in Fields :
          (InsertMention(k) /\ activeMentionField = field) =>
             LET old == FieldText(field)
                 inserted == <<"@">> \o mentionSuggestions[k] \o <<" ">>
                 new == SubSeq(old, 1, LastIndexOf(old, "@")) \o inserted
             IN  /\ Includes(old, "@")
                 /\ \A j \in 1..Len(AfterAt(old)) : AfterAt(old)[j] \notin Whitespace
                 /\ newComment' = IF field = "new" THEN new ELSE newComment
                 /\ replyText' = IF field = "reply" THEN new ELSE replyText
                 /\ editText' = IF field = "edit" THEN new ELSE editText
                 /\ ~showMentionSuggestions'
                 /\ activeMentionField' = NoField]_vars

\* C21: a directory lookup that fails sets no error message and leaves no
\* suggestion list displayed.
C21_LookupErrorDropsList ==
    [][\A i \in 1..Len(calls) :
          SearchFails(i) => (error' = error /\ mounted' = mounted
                               /\ ~showMentionSuggestions')]_vars

-----------------------------------------------------------------------------
(* The three components, one of them running *)

AppInit == QAInit \/ StoreInit \/ ReactInit

\* the part that Init started runs; the other two stay idle
AppNext ==
    \/ /\ calls = <<>> /\ procs = <<>>
       /\ QANext /\ UNCHANGED <<treeVars, reactVars, commentVars>>
    \/ /\ calls # <<>>
       /\ StoreNext /\ UNCHANGED <<qaVars, reactVars, tree, prevTree, builds, renderVars, entityVars>>
    \/ /\ procs # <<>>
       /\ ReactNext /\ UNCHANGED <<qaVars, treeVars, commentVars>>

SpecApp == AppInit /\ [][AppNext]_vars

\* the mutation requests awaiting their response: updateQA calls; the POST,
\* PATCH and DELETE of the comment store; the POST of toggleReaction
QAPending == {i \in 1..Len(reqs) : outcome[i] = "pending"}

StorePending == {i \in 1..Len(calls) : calls[i].pc \in {"post", "patch", "delete"}}

ReactPending == {i \in 1..Len(procs) : procs[i].pc = "post"}

\* C22: a step sends at most one mutation request, and a step in which a
\* mutation request completes, successfully or not, sends none: requests are
\* sent by the handlers of user actions only, once each.
C22_NoAutomaticRetry ==
    [][LET sent == <<QAPending' \ QAPending, StorePending' \ StorePending,
                     ReactPending' \ ReactPending>>
           completed == (QAPending \ QAPending') \cup (StorePending \ StorePending')
                           \cup (ReactPending \ ReactPending')
       IN  /\ Cardinality(sent[1]) + Cardinality(sent[2]) + Cardinality(sent[3]) <= 1
           /\ completed # {} => sent = <<{}, {}, {}>>]_vars

\* C22 witness: a create, an updateQA or a toggle was rejected and nothing is
\* in flight afterwards
C22_Witness ==
    /\ QAPending = {} /\ StorePending = {} /\ ReactPending = {}
    /\ \/ error = "Failed to create comment"
       \/ \E i \in 1..Len(reqs) : outcome[i] = "failed"
       \/ \E i \in Toggles : procs[i].pc = "done" /\ ~procs[i].clean

-----------------------------------------------------------------------------
(* ThreadedComment: the recursive rendering of the forest *)

\* the depth beyond which rendering is to be refused
DepthBound == 50

\* following parent references from id stays inside the list for n steps
RECURSIVE ChainStays(_, _, _)
ChainStays(list, id, n) ==
    \/ n = 0
    \/ /\ id \in IdsOf(list)
       /\ LET parent == (CHOOSE c \in {list[k] : k \in 1..Len(list)} :
                            c.comment_id = id).parent_comment_id
          IN  parent # Null /\ ChainStays(list, parent, n - 1)

\* the parent references of the list hold a cycle
HasCycle(list) == \E id \in IdsOf(list) : ChainStays(list, id, Len(list) + 1)

\* a thread nested deeper than the bound, and a comment that is its own parent
DeepCyclicList ==
    [i \in 1..(DepthBound + 2) |-> [comment_id |-> i, parent_comment_id |-> i - 1]]
       \o << [comment_id |-> DepthBound + 3, parent_comment_id |-> DepthBound + 3] >>

\* QAComments holds a list with a cycle and has not rendered it yet
ThreadsStart ==
    /\ comments \in {l \in CommentLists : HasCycle(l)} \cup {DeepCyclicList}
    /\ tree = NoTree
    /\ prevTree = NoTree
    /\ builds = 0
    /\ RenderIdle

\* the ThreadedComment elements of these nodes, at this depth
Elements(ids, depth) == [k \in 1..Len(ids) |-> [id |-> ids[k], depth |-> depth]]

\* a render of QAComments: buildCommentTree(comments), then
\* threadedComments.map(comment => <ThreadedComment comment depth={0} />)
RenderForest ==
    /\ builds = 0
    /\ tree' = BuildCommentTree(comments)
    /\ prevTree' = tree
    /\ builds' = builds + 1
    /\ renderStack' = Elements(BuildCommentTree(comments).rootComments, 0)
    /\ visits' = 0
    /\ deepest' = 0
    /\ UNCHANGED comments

\* one ThreadedComment renders: comment.replies.map(reply =>
\* <ThreadedComment comment={reply} depth={depth + 1} />); rendering stops
\* being followed once more elements were rendered than there are comments
ThreadedComment ==
    /\ renderStack # <<>>
    /\ visits <= Len(comments)
    /\ LET element == Head(renderStack)
       IN  /\ renderStack' = Elements(tree.commentMap[element.id].replies, element.depth + 1)
                                \o Tail(renderStack)
           /\ deepest' = IF element.depth > deepest THEN element.depth ELSE deepest
    /\ visits' = visits + 1
    /\ UNCHANGED <<comments, tree, prevTree, builds>>

ThreadsNext == (RenderForest \/ ThreadedComment) /\ UNCHANGED <<qaVars, reactVars, commentVars>>

ThreadsInit == ThreadsStart /\ QAIdle /\ ReactIdle /\ CommentsIdle

SpecThreads == ThreadsInit /\ [][ThreadsNext]_vars

\* C23: for a list with a cycle, the rendering of the forest renders at most
\* as many elements as there are comments, none at a depth beyond the bound.
C23_CyclicRenderBounded ==
    /\ visits <= Len(comments)
    /\ deepest <= DepthBound

-----------------------------------------------------------------------------
(* QASection: convergence *)

\* no updateQA call is awaiting its answer
QAQuiet == \A i \in 1..Len(reqs) : outcome[i] # "pending"

\* only the four handlers that roll back were used so far
OnlyRollbackHandlers ==
    /\ noteEdits = 0
    /\ \A i \in 1..Len(reqs) : reqs[i].handler \in RollbackHandlers

\* C24: after any interleaving of handleStatusChange, handleAssign,
\* handleChecklistChange and handleOverallResultChange calls and of their
\* completions, once no request is in flight the local qaData is the record
\* the server persisted last (the initial record if none was persisted).
C24_QAConverges ==
    (OnlyRollbackHandlers /\ QAQuiet) => qaData = server

-----------------------------------------------------------------------------
(* QAComments: a mutation in flight while the timer refreshes the list *)

\* the view with its list loaded, after another user posted comment 3: the
\* backend holds a comment the local list does not hold yet
RefreshStart ==
    /\ comments = << Comment(1, Null, CurrentUser, <<"a">>),
                     Comment(2, 1, CurrentUser, <<"a">>) >>
    /\ srvComments = Append(comments, Comment(3, Null, "other", <<"b">>))
    /\ srvNextId = Len(srvComments) + 1
    /\ commentsLoading = FALSE
    /\ error = NoError
    /\ newComment = EmptyText
    /\ replyText = EmptyText
    /\ replyingToId = Null
    /\ editText = EmptyText
    /\ editingCommentId = Null
    /\ submitting = FALSE
    /\ mounted = TRUE
    /\ interval = TRUE
    /\ calls = << DoneCall >>
    /\ MentionIdle
    /\ amendmentId = FirstAmendmentId

RefreshInit == RefreshStart /\ NoRender /\ QAIdle /\ ReactIdle

SpecRefresh ==
    RefreshInit /\ [][StoreNext /\ UNCHANGED <<qaVars, reactVars, tree, prevTree, builds, renderVars, entityVars>>]_vars

\* the comments of a list
CommentsOf(list) == {list[k] : k \in 1..Len(list)}

\* since handleEditComment / handleDeleteComment call i was issued, a
\* loadComments response replaced the list: the list holds a comment that the
\* list of the call's render did not hold
RefreshedSince(i) ==
    \E c \in CommentsOf(comments) : c.comment_id \notin IdsOf(calls[i].closure)

\* C25: when a loadComments response replaced the list while the request of a
\* handleEditComment or handleDeleteComment was in flight, the completion of
\* that request keeps the comments the refresh brought in the local list.
C25_CompletionKeepsRefresh ==
    [][\A i \in 1..Len(calls) :
          ((PatchSucceeds(i) \/ DeleteSucceeds(i)) /\ RefreshedSince(i))
          => \A c \in CommentsOf(comments) :
                 c.comment_id \notin IdsOf(calls[i].closure) => c \in CommentsOf(comments')]_vars

-----------------------------------------------------------------------------
(* QAComments: the amendmentId prop changes *)

\* GET /amendments/{amendmentId}/qa-comments: the backend's list of an amendment
ServerListOf(amendment) ==
    IF amendment = FirstAmendmentId
    THEN << Comment(1, Null, CurrentUser, <<"a">>), Comment(2, 1, CurrentUser, <<"a">>) >>
    ELSE << Comment(3, Null, "other", <<"b">>) >>

\* QAComments has just mounted for the first amendment; the id of a load call
\* is the amendmentId of the loadComments closure that sent the GET
EntityStart ==
    /\ amendmentId = FirstAmendmentId
    /\ comments = <<>>
    /\ commentsLoading = TRUE
    /\ error = NoError
    /\ newComment = EmptyText
    /\ replyText = EmptyText
    /\ replyingToId = Null
    /\ editText = EmptyText
    /\ editingCommentId = Null
    /\ submitting = FALSE
    /\ mounted = TRUE
    /\ interval = TRUE
    /\ srvComments = ServerListOf(amendmentId)
    /\ srvNextId = Len(srvComments) + 1
    /\ calls = << Call("load", "load", amendmentId, EmptyText, <<>>) >>
    /\ MentionIdle

\* the parent renders QAComments with another amendmentId: the effect's
\* cleanup clears the timer, the effect calls loadComments() for the new
\* amendmentId and starts a new timer; no state is reset
ChangeAmendment(amendment) ==
    /\ mounted
    /\ amendment # amendmentId
    /\ Len(calls) < MaxCalls
    /\ amendmentId' = amendment
    /\ srvComments' = ServerListOf(amendment)
    /\ calls' = Append(calls, Call("load", "load", amendment, EmptyText, <<>>))
    /\ UNCHANGED <<comments, commentsLoading, error, newComment, replyText, replyingToId,
                   editText, editingCommentId, submitting, mounted, interval, srvNextId,
                   mentionVars>>

\* the timer of the latest effect fires: loadComments() of its render
EntityTimerFires ==
    /\ interval
    /\ Len(calls) < MaxCalls
    /\ calls' = Append(calls, Call("load", "load", amendmentId, EmptyText, <<>>))
    /\ UNCHANGED <<comments, commentsLoading, error, newComment, replyText, replyingToId,
                   editText, editingCommentId, submitting, mounted, interval, srvComments,
                   srvNextId, mentionVars, amendmentId>>

\* the backend handles the GET of a loadComments: the list of its amendment
EntityServerAnswersLoad(i) ==
    /\ calls[i].pc = "load"
    /\ ~calls[i].answered
    /\ calls' = [calls EXCEPT ![i].answered = TRUE, ![i].response = ServerListOf(calls[i].id)]
    /\ UNCHANGED <<comments, commentsLoading, error, newComment, replyText, replyingToId,
                   editText, editingCommentId, submitting, mounted, interval, srvComments,
                   srvNextId, mentionVars, amendmentId>>

EntityNext ==
    \/ \E amendment \in AmendmentIds : ChangeAmendment(amendment)
    \/ EntityTimerFires
    \/ \E i \in 1..Len(calls) : EntityServerAnswersLoad(i)
    \/ \E i \in 1..Len(calls) : LoadArrives(i) /\ UNCHANGED amendmentId
    \/ \E i \in 1..Len(calls) : LoadFails(i) /\ UNCHANGED amendmentId
    \/ Unmount /\ UNCHANGED amendmentId

EntityInit == EntityStart /\ NoRender /\ QAIdle /\ ReactIdle

SpecEntity ==
    EntityInit /\ [][EntityNext /\ UNCHANGED <<qaVars, reactVars, tree, prevTree, builds, renderVars>>]_vars

-----------------------------------------------------------------------------
(* QAComments: late lookup responses *)

\* the response of searchEmployees call i is out of date: the field's text
\* has no active mention token any more, or a newer query was issued
StaleLookup(i) ==
    \/ ~InMention(FieldText(activeMentionField))
    \/ calls[i].text # mentionQuery

\* C27: a lookup response that arrives after the token was deactivated or
\* after a newer query was issued neither opens the suggestion list nor
\* replaces the candidates.
C27_StaleLookupIgnored ==
    [][\A i \in 1..Len(calls) :
          (SearchArrives(i) /\ StaleLookup(i))
          => /\ showMentionSuggestions' = showMentionSuggestions
             /\ mentionSuggestions' = mentionSuggestions]_vars

-----------------------------------------------------------------------------
(* CommentReactions: every request completes *)

\* a request of the widget completes: its response or its rejection arrives
RequestCompletes ==
    /\ \E i \in 1..Len(procs) :
          \/ PostSucceeds(i)
          \/ PostFails(i)
          \/ ServerAnswers(i)
          \/ SummaryArrives(i)
          \/ ListArrives(i)
          \/ GetFails(i)
    /\ UNCHANGED <<qaVars, treeVars, commentVars>>

\* the widget, with every request completing eventually
SpecReactionsFair == SpecReactions /\ WF_vars(RequestCompletes)

\* C28: every toggleReaction that set loading sets it back once its POST and
\* the reload have completed, whatever their outcome: given that every request
\* completes, the guard of a comment is never held forever.
C28_GuardReleased ==
    \A c \in ReactionComments : (loading[c] ~> ~loading[c])

\* C28 witness: a toggleReaction ended after one of its requests failed, and
\* the guard of its comment is released
C28_Witness ==
    \E i \in Toggles :
        /\ procs[i].pc = "done"
        /\ ~procs[i].clean
        /\ ~loading[procs[i].comment]

-----------------------------------------------------------------------------
(* QAComments: the load error *)

\* C29: after a loadComments call succeeded, the 'Failed to load comments'
\* error is no longer set.
C29_LoadErrorClears ==
    [][\A i \in 1..Len(calls) :
          LoadArrives(i) => error' # "Failed to load comments"]_vars

-----------------------------------------------------------------------------
(* QASection: status and assignee *)

\* a QA record whose status 'Assigned' or 'In Testing' comes with an assignee
StatusHasAssignee(qa) ==
    qa.qa_status \in {"Assigned", "In Testing"} => qa.qa_assigned_id # Null

\* C30: started from a record in which 'Assigned' and 'In Testing' imply an
\* assignee, every local qaData reached through the status buttons,
\* handleAssign and the rollbacks satisfies that implication.
C30_StatusAssignee == StatusHasAssignee(qaData)

\* C30 witness: from a record without assignee, handleAssign moved
\* 'Not Started' to 'Assigned', a later status change was rolled back, and
\* the status button 'In Testing' was used on a record with an assignee
C30_Witness ==
    /\ Len(reqs) = 2
    /\ reqs[1].handler = "assign"
    /\ reqs[1].prevData.qa_assigned_id = Null
    /\ reqs[1].payload.qa_status = "Assigned"
    /\ reqs[2].handler = "status"
    /\ reqs[2].payload.qa_status = "In Testing"
    /\ outcome[2] = "failed"
    /\ qaData.qa_status = "Assigned"
    /\ qaData.qa_assigned_id # Null

====
